---- MODULE Spec2Model ----
(***************************************************************************)
(* A model of pycheribuild/utils.py: the process-wide configuration and    *)
(* its placeholder, the error-context stack, the reporters (error_message, *)
(* fatal_error, query_yes_no), the cached connectivity probe and           *)
(* ThreadJoiner.                                                           *)
(*                                                                         *)
(* Python values are modelled as follows.  The four constructor flags of   *)
(* ConfigBase hold "True", "False" or the placeholder object               *)
(* "DoNotUseInIfStmt"; attributes that are always real booleans are TLA+   *)
(* booleans.  A raised exception is named by its class ("ValueError",      *)
(* "AssertionError", "SystemExit", ...), and "none" means that nothing was *)
(* raised.  The variable last is a history variable: it records the most   *)
(* recent call, its arguments and what the caller observed.                *)
(***************************************************************************)
EXTENDS Naturals, Sequences, FiniteSets

VARIABLES
    GlobalConfig,     \* utils.GlobalConfig, the object get_global_config() returns
    inits,            \* number of init_global_config calls made so far
    _ERROR_CONTEXT,   \* utils._ERROR_CONTEXT, the list of context frames
    scopes,           \* the add_error_context scopes whose body is running
    exc,              \* the exception travelling up the call stack, or NoExc
    failures,         \* history: number of add_error_context scopes left by a failure
    clock,            \* what time.time() returns now
    ticks,            \* number of clock advances so far
    lastProbe,        \* history: the last connection attempt made for GlobalConfig
    thread,           \* state of every threading.Thread object
    lists,            \* the content of the list objects that hold threads
    joiners,          \* the list object that each named joiner's .threads names
    pc,               \* where the main thread is in a "with joiner:" statement
    joined,           \* history: how often join() has returned for each thread
    last              \* the most recent call and its outcome

vars == <<GlobalConfig, inits, _ERROR_CONTEXT, scopes, exc, failures, clock, ticks,
          lastProbe, thread, lists, joiners, pc, joined, last>>

configVars == <<GlobalConfig, inits, lastProbe>>
contextVars == <<_ERROR_CONTEXT, scopes, exc, failures>>
clockVars == <<clock, ticks>>
joinerVars == <<thread, lists, joiners, pc, joined>>

-----------------------------------------------------------------------------
(* Bounds of the model                                                     *)

MaxInits == 3
MaxReplyLen == 2
MaxDepth == 2        \* add_error_context scopes open at once
MaxStack == 3        \* frames on _ERROR_CONTEXT
MaxExcIds == 2       \* distinct exception objects a body may raise
MaxExitCode == 4     \* exit codes a caller may pass are 0..MaxExitCode
MaxTicks == 4        \* clock advances
MaxThreads == 2      \* threading.Thread objects
MaxLen == 2          \* length of a list of threads

-----------------------------------------------------------------------------
(* Python values                                                           *)

True == "True"
False == "False"
PyBool == {True, False}

ToPy(b) == IF b THEN True ELSE False

Flags == {"pretend", "verbose", "quiet", "force"}
Attributes == Flags \cup {"presume_connectivity"}

\* class DoNotUseInIfStmt: an object whose __bool__ and __len__ raise ValueError
DoNotUseInIfStmt == "DoNotUseInIfStmt"

\* a placeholder that answers False instead of raising
bool_defaulting(v) ==
    IF v = DoNotUseInIfStmt THEN [raised |-> "none", value |-> False]
    ELSE [raised |-> "none", value |-> v]

\* bool(v) for a placeholder or a real boolean: the class of the exception
\* raised ("none" when nothing is raised) and the value returned
bool(v) ==
    IF v = DoNotUseInIfStmt THEN [raised |-> "ValueError", value |-> False]
    ELSE [raised |-> "none", value |-> v]

\* len(v): the placeholder's __len__ raises ValueError, a bool has no len()
len(v) ==
    IF v = DoNotUseInIfStmt THEN [raised |-> "ValueError", value |-> False]
    ELSE [raised |-> "TypeError", value |-> False]

\* an Optional[float] timestamp: None, or a number of seconds since the epoch
NoTime == [set |-> FALSE, at |-> 0]
AtTime(t) == [set |-> TRUE, at |-> t]

NoProbe == [set |-> FALSE, at |-> 0, result |-> FALSE]

-----------------------------------------------------------------------------
(* ConfigBase, GlobalConfig, init_global_config, get_global_config         *)

\* ConfigBase.__init__, with the class attribute TEST_MODE = False
ConfigBase(pretend, verbose, quiet, force) ==
    [quiet |-> quiet, verbose |-> verbose, pretend |-> pretend, force |-> force,
     presume_connectivity |-> FALSE,
     internet_connection_last_checked_at |-> NoTime,
     internet_connection_last_check_result |-> FALSE,
     TEST_MODE |-> FALSE]

\* the module-level placeholder installed at import time
InitialGlobalConfig ==
    ConfigBase(DoNotUseInIfStmt, DoNotUseInIfStmt, DoNotUseInIfStmt, DoNotUseInIfStmt)

\* config.<name> as a Python value
Attr(config, name) ==
    IF name = "presume_connectivity" THEN ToPy(config.presume_connectivity)
    ELSE config[name]

\* an assert that rejects either flag instead of the pair
init_assert_either(config) ==
    IF config.verbose = True \/ config.quiet = True THEN "AssertionError" ELSE "none"

\* assert not (GlobalConfig.verbose and GlobalConfig.quiet), "mutually exclusive":
\* "and" asks bool(verbose) and, when that is true, "not" asks bool(quiet)
init_assert(config) ==
    LET v == bool(config.verbose)
        q == bool(config.quiet)
    IN  IF v.raised # "none" THEN v.raised
        ELSE IF v.value = False THEN "none"
        ELSE IF q.raised # "none" THEN q.raised
        ELSE IF q.value = True THEN "AssertionError"
        ELSE "none"

\* an initialization that takes effect only the first time or in test mode
install_once(old, config, test_mode) ==
    IF old = InitialGlobalConfig \/ old.TEST_MODE
    THEN [config EXCEPT !.TEST_MODE = test_mode]
    ELSE old

\* the object GlobalConfig names after init_global_config(config, test_mode):
\* the assignment and the TEST_MODE store come before the assert
install(old, config, test_mode) == [config EXCEPT !.TEST_MODE = test_mode]

init_global_config(config, test_mode) ==
    /\ inits < MaxInits
    /\ GlobalConfig' = install(GlobalConfig, config, test_mode)
    /\ inits' = inits + 1
    /\ lastProbe' = NoProbe
    /\ last' = [op |-> "init_global_config", config |-> config,
                test_mode |-> test_mode, before |-> GlobalConfig,
                installed |-> inits > 0,
                raised |-> init_assert(install(GlobalConfig, config, test_mode))]
    /\ UNCHANGED <<contextVars, clockVars, joinerVars>>

get_global_config == GlobalConfig

\* the caller's "config.presume_connectivity = value" on the installed object
SetPresumeConnectivity(value) ==
    /\ inits > 0
    /\ GlobalConfig.presume_connectivity # value
    /\ GlobalConfig' = [GlobalConfig EXCEPT !.presume_connectivity = value]
    /\ last' = [op |-> "set_presume_connectivity", value |-> value]
    /\ UNCHANGED <<inits, lastProbe, contextVars, clockVars, joinerVars>>

\* a caller's bool(get_global_config().<name>) or len(get_global_config().<name>)
QueryFlag(how, name) ==
    /\ last' = [op |-> "query", how |-> how, name |-> name, inits |-> inits,
                result |-> IF how = "bool" THEN bool(Attr(get_global_config, name))
                           ELSE len(Attr(get_global_config, name))]
    /\ UNCHANGED <<configVars, contextVars, clockVars, joinerVars>>

\* the configs a caller constructs: real booleans for the four flags
NewConfigs ==
    {[ConfigBase(p, v, q, f) EXCEPT !.presume_connectivity = c] :
        p \in PyBool, v \in PyBool, q \in PyBool, f \in PyBool, c \in BOOLEAN}

-----------------------------------------------------------------------------
(* query_yes_no                                                            *)

\* a reply typed at the prompt: a string as the sequence of its characters
ReplyChars == {"y", "Y", "n", "N", "x"}
Replies == UNION {[1..n -> ReplyChars] : n \in 0..MaxReplyLen}

\* str.startswith for a one-character prefix
startswith(s, c) == Len(s) > 0 /\ s[1] = c

\* str.lower
lower(s) == [i \in 1..Len(s) |->
                IF s[i] = "Y" THEN "y" ELSE IF s[i] = "N" THEN "n" ELSE s[i]]

\* an automatic answer that is always yes
auto_answer_yes(default_result, force_result) == TRUE

\* the value returned (and printed as "y" or "n") in pretend or force mode
auto_answer(default_result, force_result) == force_result

\* a parse that compares the reply as typed in both branches
parse_reply_as_typed(default_result, reply) ==
    IF default_result THEN ~startswith(reply, "n")
    ELSE startswith(reply, "y")

\* the reply parsed: "return not result.startswith('n')" when the default is
\* yes, "return str(result).lower().startswith('y')" otherwise
parse_reply(default_result, reply) ==
    IF default_result THEN ~startswith(reply, "n")
    ELSE startswith(lower(reply), "y")

Answered(value, printed, read) ==
    [raised |-> "none", value |-> value, printed |-> printed, read_input |-> read]

\* a query that prompts whether or not stdin is a terminal
query_yes_no_ignoring_tty(config, default_result, force_result, isatty, reply) ==
    IF config.pretend = True \/ config.force = True
    THEN Answered(force_result, IF force_result THEN "y" ELSE "n", FALSE)
    ELSE Answered(parse_reply(default_result, reply), "", TRUE)

\* query_yes_no(config, default_result=..., force_result=...) where stdin is
\* a terminal iff isatty and the user would type reply
query_yes_no(config, default_result, force_result, isatty, reply) ==
    LET pretend == bool(config.pretend)
        force == bool(config.force)
        auto == auto_answer(default_result, force_result)
    IN  IF pretend.raised # "none"
        THEN [raised |-> pretend.raised, value |-> FALSE, printed |-> "",
              read_input |-> FALSE]
        ELSE IF pretend.value = True
        THEN Answered(auto, IF auto THEN "y" ELSE "n", FALSE)
        ELSE IF force.raised # "none"
        THEN [raised |-> force.raised, value |-> FALSE, printed |-> "",
              read_input |-> FALSE]
        ELSE IF force.value = True
        THEN Answered(auto, IF auto THEN "y" ELSE "n", FALSE)
        ELSE IF ~isatty
        THEN Answered(default_result, "", FALSE)
        ELSE Answered(parse_reply(default_result, reply), "", TRUE)

\* a call query_yes_no(get_global_config(), ...); the user types a reply
\* only if input() is called (otherwise reply is the empty string here)
QueryYesNo(default_result, force_result, isatty, reply) ==
    /\ reply # <<>> =>
          query_yes_no(GlobalConfig, default_result, force_result, isatty,
                       reply).read_input
    /\ last' = [op |-> "query_yes_no", config |-> GlobalConfig,
                default_result |-> default_result, force_result |-> force_result,
                isatty |-> isatty, reply |-> reply,
                result |-> query_yes_no(GlobalConfig, default_result,
                                        force_result, isatty, reply)]
    /\ UNCHANGED <<configVars, contextVars, clockVars, joinerVars>>

\* the configs the prompt is exercised with
PromptConfigs == {config \in NewConfigs :
                     config.verbose = False /\ config.quiet = False
                     /\ ~config.presume_connectivity}

-----------------------------------------------------------------------------
(* _ERROR_CONTEXT and add_error_context                                    *)

NoExc == [class |-> "none", id |-> 0, code |-> 0]
NoCall == [op |-> "none"]

Contexts == {"X", "Y"}
ExcIds == 1..MaxExcIds

\* an exception object: its class, its identity and, for SystemExit, its code
Exception(id) == [class |-> "Exception", id |-> id, code |-> 0]
SystemExit(code) == [class |-> "SystemExit", id |-> 0, code |-> code]

\* list.pop()
pop(list) == SubSeq(list, 1, Len(list) - 1)

\* _ERROR_CONTEXT.append(context), before the yield
add_error_context_enter(stack, context) == Append(stack, context)

\* a normal exit that leaves the frame in place
add_error_context_return_keeping(stack) == stack

\* the statement after the yield when the body returned: _ERROR_CONTEXT.pop()
add_error_context_return(stack) == pop(stack)

\* a failing exit that pops the frame like a normal one
add_error_context_raise_popping(stack, e) == [stack |-> pop(stack), raised |-> e]

\* the body raised e, which the generator receives at the yield: the pop is
\* skipped; an Exception is caught and re-raised ("raise e"), anything else
\* (SystemExit) passes through the generator uncaught
add_error_context_raise(stack, e) ==
    IF e.class = "Exception" THEN [stack |-> stack, raised |-> e]
    ELSE [stack |-> stack, raised |-> e]

\* a with-statement's body starts: "with add_error_context(context):"
EnterContext(context) ==
    /\ exc = NoExc
    /\ Len(scopes) < MaxDepth
    /\ Len(_ERROR_CONTEXT) < MaxStack
    /\ _ERROR_CONTEXT' = add_error_context_enter(_ERROR_CONTEXT, context)
    /\ scopes' = Append(scopes, [context |-> context, entry |-> _ERROR_CONTEXT,
                                 nested_failed |-> FALSE])
    /\ last' = [op |-> "enter_context", context |-> context]
    /\ UNCHANGED <<exc, failures, configVars, clockVars, joinerVars>>

\* the scopes left open when the innermost one exits; the enclosing scope
\* remembers whether a scope nested in its body has failed
Enclosing(failed) ==
    LET outer == pop(scopes)
    IN  IF outer = <<>> \/ ~failed THEN outer
        ELSE [outer EXCEPT ![Len(outer)].nested_failed = TRUE]

\* the body of the innermost scope returns
ExitContextReturn ==
    /\ exc = NoExc
    /\ scopes # <<>>
    /\ LET scope == scopes[Len(scopes)]
       IN  /\ _ERROR_CONTEXT' = add_error_context_return(_ERROR_CONTEXT)
           /\ scopes' = Enclosing(scope.nested_failed)
           /\ last' = [op |-> "add_error_context", how |-> "returned",
                       context |-> scope.context, before |-> scope.entry,
                       after |-> add_error_context_return(_ERROR_CONTEXT),
                       nested_failed |-> scope.nested_failed,
                       raised_in |-> NoExc, raised_out |-> NoExc]
    /\ UNCHANGED <<exc, failures, configVars, clockVars, joinerVars>>

\* the exception in flight leaves the body of the innermost scope
ExitContextRaise ==
    /\ exc.class \in {"Exception", "SystemExit"}
    /\ scopes # <<>>
    /\ LET scope == scopes[Len(scopes)]
           out == add_error_context_raise(_ERROR_CONTEXT, exc)
       IN  /\ _ERROR_CONTEXT' = out.stack
           /\ exc' = out.raised
           /\ scopes' = Enclosing(TRUE)
           /\ failures' = failures + 1
           /\ last' = [op |-> "add_error_context", how |-> "raised",
                       context |-> scope.context, before |-> scope.entry,
                       after |-> out.stack,
                       nested_failed |-> scope.nested_failed,
                       raised_in |-> exc, raised_out |-> out.raised]
    /\ UNCHANGED <<configVars, clockVars, joinerVars>>

\* code in a body (or at top level) raises an exception
Raise(id) ==
    /\ exc = NoExc
    /\ exc' = Exception(id)
    /\ last' = [op |-> "raise", raised |-> Exception(id)]
    /\ UNCHANGED <<_ERROR_CONTEXT, scopes, failures, configVars, clockVars, joinerVars>>

\* a try/except around the code that failed (in the innermost body, or at
\* top level as in main()) handles the exception in flight
HandleException ==
    /\ exc.class \in {"Exception", "SystemExit"}
    /\ exc' = NoExc
    /\ last' = [op |-> "except", handled |-> exc]
    /\ UNCHANGED <<_ERROR_CONTEXT, scopes, failures, configVars, clockVars, joinerVars>>

\* nothing handles the exception: the interpreter exits (with the SystemExit
\* code, or 1 after printing the traceback of another exception)
ProcessExit ==
    /\ exc.class \in {"Exception", "SystemExit"}
    /\ scopes = <<>>
    /\ exc' = [class |-> "exited", id |-> 0,
               code |-> IF exc.class = "SystemExit" THEN exc.code ELSE 1]
    /\ last' = [op |-> "process_exit", uncaught |-> exc]
    /\ UNCHANGED <<_ERROR_CONTEXT, scopes, failures, configVars, clockVars, joinerVars>>

-----------------------------------------------------------------------------
(* error_message, fatal_error                                              *)

DefaultExitCode == 3
ExitCodes == 0..MaxExitCode

\* a prefix that shows every frame of the stack
_add_error_context_all_frames(prefix, stack) == [prefix |-> prefix, context |-> stack]

\* _add_error_context(prefix, args, sep): the prefix, followed by the top
\* frame of _ERROR_CONTEXT when the list is not empty
_add_error_context(prefix, stack) ==
    [prefix |-> prefix,
     context |-> IF stack # <<>> THEN <<stack[Len(stack)]>> ELSE <<>>]

\* error_message(*args, fixit_hint=...): what is printed to stderr
error_message(stack, fixit_hint) ==
    [message |-> _add_error_context("Error", stack), fixit |-> fixit_hint]

ErrorMessage(fixit_hint) ==
    /\ exc = NoExc
    /\ last' = [op |-> "error_message", stack |-> _ERROR_CONTEXT,
                printed |-> error_message(_ERROR_CONTEXT, fixit_hint)]
    /\ UNCHANGED <<contextVars, configVars, clockVars, joinerVars>>

\* a fatal_error that returns whenever pretend is set
fatal_error_returning(stack, pretend, fixit_hint, fatal_when_pretending, exit_code) ==
    IF bool(pretend).raised # "none"
    THEN [raised |-> bool(pretend).raised, code |-> 0, traceback |-> FALSE,
          printed |-> <<>>]
    ELSE IF bool(pretend).value = True
    THEN [raised |-> "none", code |-> 0, traceback |-> FALSE,
          printed |-> <<[message |-> _add_error_context("Potential fatal error", stack),
                         fixit |-> fixit_hint]>>]
    ELSE [raised |-> "SystemExit", code |-> exit_code, traceback |-> FALSE,
          printed |-> <<[message |-> _add_error_context("Fatal error", stack),
                         fixit |-> fixit_hint]>>]

\* fatal_error(*args, fixit_hint, fatal_when_pretending, exit_code, pretend):
\* what is printed, and the exception raised (sys.exit raises SystemExit)
fatal_error(stack, pretend, fixit_hint, fatal_when_pretending, exit_code) ==
    IF bool(pretend).raised # "none"
    THEN [raised |-> bool(pretend).raised, code |-> 0, traceback |-> FALSE,
          printed |-> <<>>]
    ELSE IF bool(pretend).value = True
    THEN [raised |-> IF fatal_when_pretending THEN "SystemExit" ELSE "none",
          code |-> IF fatal_when_pretending THEN exit_code ELSE 0,
          traceback |-> fatal_when_pretending,
          printed |-> <<[message |-> _add_error_context("Potential fatal error", stack),
                         fixit |-> fixit_hint]>>]
    ELSE [raised |-> "SystemExit", code |-> exit_code, traceback |-> FALSE,
          printed |-> <<[message |-> _add_error_context("Fatal error", stack),
                         fixit |-> fixit_hint]>>]

\* the exception a call leaves in flight
Raised(result) ==
    IF result.raised = "SystemExit" THEN SystemExit(result.code)
    ELSE IF result.raised = "none" THEN NoExc
    ELSE [class |-> "Exception", id |-> 0, code |-> 0]

\* a call fatal_error(..., pretend=pretend), with exit_code passed iff given
FatalError(pretend, fixit_hint, fatal_when_pretending, given, code) ==
    LET exit_code == IF given THEN code ELSE DefaultExitCode
        result == fatal_error(_ERROR_CONTEXT, pretend, fixit_hint,
                              fatal_when_pretending, exit_code)
    IN  /\ exc = NoExc
        /\ ~given => code = 0
        /\ exc' = Raised(result)
        /\ last' = [op |-> "fatal_error", stack |-> _ERROR_CONTEXT,
                    pretend |-> pretend, fixit_hint |-> fixit_hint,
                    fatal_when_pretending |-> fatal_when_pretending,
                    given |-> given, code |-> code, result |-> result]
        /\ UNCHANGED <<_ERROR_CONTEXT, scopes, failures, configVars, clockVars, joinerVars>>

-----------------------------------------------------------------------------
(* have_working_internet_connection                                        *)

\* seconds a connectivity result is reused for
Window == 60

\* time passes between calls: time.time() moves on by d seconds
Tick(d) ==
    /\ ticks < MaxTicks
    /\ clock' = clock + d
    /\ ticks' = ticks + 1
    /\ UNCHANGED <<configVars, contextVars, joinerVars, last>>

\* what x.connect((host, port)) does
Connects == {"connected", "OSError", "Exception"}

\* a shortcut that honours TEST_MODE only
shortcut_test_mode_only(config) == config.TEST_MODE

\* "if config.TEST_MODE or config.presume_connectivity"
shortcut(config) == config.TEST_MODE \/ config.presume_connectivity

\* "if config.internet_connection_last_checked_at:" is the truth value of an
\* Optional[float]: false for None and for 0.0
truthy(t) == t.set /\ t.at # 0

\* the cached result is used
cache_hit(config, current_check_time) ==
    /\ truthy(config.internet_connection_last_checked_at)
    /\ current_check_time < config.internet_connection_last_checked_at.at + Window

\* a return statement in a finally clause discards the exception in flight
finally_return(pending, value) == [raised |-> "none", value |-> value]

\* the try statement: the connection attempt, its except clauses and the
\* finally clause; gives the value returned, what was printed and the call
\* of fatal_error made
connection_attempt(config, stack, connect) ==
    LET fatal == fatal_error(stack, config.pretend, FALSE, FALSE, DefaultExitCode)
    IN  IF connect = "connected"
        THEN [return |-> finally_return("none", TRUE), printed |-> <<>>,
              fatal |-> "not called"]
        ELSE IF connect = "OSError"
        THEN [return |-> finally_return("none", FALSE), printed |-> <<>>,
              fatal |-> "not called"]
        ELSE [return |-> finally_return(fatal.raised, FALSE),
              printed |-> fatal.printed, fatal |-> fatal.raised]

\* a check whose cache hits restart the window
have_working_internet_connection_refreshing(config, stack, current_check_time, connect) ==
    IF shortcut(config)
    THEN [config |-> config, probed |-> FALSE, printed |-> <<>>,
          fatal |-> "not called", return |-> [raised |-> "none", value |-> TRUE]]
    ELSE IF cache_hit(config, current_check_time)
    THEN [config |-> [config EXCEPT
              !.internet_connection_last_checked_at = AtTime(current_check_time)],
          probed |-> FALSE, printed |-> <<>>, fatal |-> "not called",
          return |-> [raised |-> "none",
                      value |-> config.internet_connection_last_check_result]]
    ELSE LET attempt == connection_attempt(config, stack, connect)
         IN  [config |-> [config EXCEPT
                  !.internet_connection_last_check_result = attempt.return.value,
                  !.internet_connection_last_checked_at = AtTime(current_check_time)],
              probed |-> TRUE, printed |-> attempt.printed,
              fatal |-> attempt.fatal, return |-> attempt.return]

\* have_working_internet_connection(config) at time current_check_time,
\* where a connection attempt, if made, ends as connect says; gives the
\* config afterwards and what the caller observes
have_working_internet_connection(config, stack, current_check_time, connect) ==
    IF shortcut(config)
    THEN [config |-> config, probed |-> FALSE, printed |-> <<>>,
          fatal |-> "not called", return |-> [raised |-> "none", value |-> TRUE]]
    ELSE IF cache_hit(config, current_check_time)
    THEN [config |-> config, probed |-> FALSE, printed |-> <<>>,
          fatal |-> "not called",
          return |-> [raised |-> "none",
                      value |-> config.internet_connection_last_check_result]]
    ELSE LET attempt == connection_attempt(config, stack, connect)
         IN  [config |-> [config EXCEPT
                  !.internet_connection_last_check_result = attempt.return.value,
                  !.internet_connection_last_checked_at = AtTime(current_check_time)],
              probed |-> TRUE, printed |-> attempt.printed,
              fatal |-> attempt.fatal, return |-> attempt.return]

\* a call have_working_internet_connection(get_global_config())
HaveWorkingInternetConnection(connect) ==
    LET call == have_working_internet_connection(GlobalConfig, _ERROR_CONTEXT,
                                                 clock, connect)
    IN  /\ GlobalConfig' = call.config
        /\ lastProbe' = IF call.probed
                        THEN [set |-> TRUE, at |-> clock, result |-> call.return.value]
                        ELSE lastProbe
        /\ last' = [op |-> "have_working_internet_connection",
                    config |-> GlobalConfig, time |-> clock, connect |-> connect,
                    previous |-> lastProbe, probed |-> call.probed,
                    printed |-> call.printed, fatal |-> call.fatal,
                    return |-> call.return]
        /\ UNCHANGED <<inits, contextVars, clockVars, joinerVars>>

\* the configs the probe is exercised with
ProbeConfigs == {config \in NewConfigs :
                    config.verbose = False /\ config.quiet = False
                    /\ config.force = False}

-----------------------------------------------------------------------------
(* ThreadJoiner                                                            *)

Threads == 1..MaxThreads

\* the lists of threads a caller may write down
ThreadLists == UNION {[1..n -> Threads] : n \in 0..MaxLen}

\* the caller's variables that name ThreadJoiner objects, and the list
\* objects their .threads attributes name (0: the variable is not bound yet)
Names == {"a", "b"}
ListIds == 1..Cardinality(Names)

\* the content of the list that the joiner named j holds in .threads
ThreadsOf(j) == lists[joiners[j]]

\* a list object no variable other than n names: where the list of a joiner
\* newly bound to n is put
Fresh(n) ==
    LET used == {joiners[m] : m \in Names \ {n}}
    IN  CHOOSE l \in ListIds \ used : \A k \in ListIds \ used : l <= k

\* list objects no joiner names any more are garbage
Collect(ls, js) ==
    [l \in ListIds |-> IF l \in {js[m] : m \in Names} THEN ls[l] ELSE <<>>]

\* the main thread is free to run statements, and n is not the joiner whose
\* with statement is running
CanBind(n) == pc.at = "idle" \/ (pc.at = "body" /\ pc.joiner # n)

\* the same, for a variable that names no joiner yet
CanCreate(n) == CanBind(n) /\ joiners[n] = 0

\* n = <a new ThreadJoiner whose .threads is a new list object>
Bind(n, threads) ==
    /\ joiners' = [joiners EXCEPT ![n] = Fresh(n)]
    /\ lists' = Collect([lists EXCEPT ![Fresh(n)] = threads],
                        [joiners EXCEPT ![n] = Fresh(n)])

\* a loop that takes the threads last to first
next_thread_reversed(threads, i) == threads[Len(threads) + 1 - i]

\* "for thread in self.threads": the thread taken in the i-th turn
next_thread(threads, i) == threads[i]

\* thread.start(): a thread can be started once
start(state) ==
    IF state = "new" THEN [raised |-> "none", state |-> "running"]
    ELSE [raised |-> "RuntimeError", state |-> state]

\* thread.is_alive()
is_alive(state) == state = "running"

\* a join that never returns for a started thread
join_never_returning(state) ==
    IF state = "new" THEN "RuntimeError" ELSE "blocks"

\* a join that returns at once
join_without_waiting(state) ==
    IF state = "new" THEN "RuntimeError" ELSE "returns"

\* thread.join(): raises for a thread never started, blocks while it runs
join(state) ==
    IF state = "new" THEN "RuntimeError"
    ELSE IF state = "running" THEN "blocks"
    ELSE "returns"

\* ThreadJoiner.__exit__ returns None, so the with statement re-raises the
\* body's exception
exit_suppresses == FALSE

\* a started thread runs to its end
ThreadFinishes(t) ==
    /\ thread[t] = "running"
    /\ thread' = [thread EXCEPT ![t] = "done"]
    /\ UNCHANGED <<joined, lists, joiners, pc, last, configVars, contextVars, clockVars>>

\* n = ThreadJoiner(): self.threads = []
ThreadJoinerNone(n) ==
    /\ CanCreate(n)
    /\ Bind(n, <<>>)
    /\ last' = [op |-> "ThreadJoiner", joiner |-> n]
    /\ UNCHANGED <<joined, thread, pc, configVars, contextVars, clockVars>>

\* n = ThreadJoiner(t): self.threads = [threads]
ThreadJoinerThread(n, t) ==
    /\ CanCreate(n)
    /\ Bind(n, <<t>>)
    /\ last' = [op |-> "ThreadJoiner", joiner |-> n]
    /\ UNCHANGED <<joined, thread, pc, configVars, contextVars, clockVars>>

\* n = ThreadJoiner([t1, ...]) with a list the caller has just built:
\* self.threads = threads, the caller's list object itself
ThreadJoinerNewList(n, threads) ==
    /\ CanCreate(n)
    /\ Bind(n, threads)
    /\ last' = [op |-> "ThreadJoiner", joiner |-> n]
    /\ UNCHANGED <<joined, thread, pc, configVars, contextVars, clockVars>>

\* n = ThreadJoiner(l) with the list object l that the joiner named m holds:
\* self.threads = threads, the same object
ThreadJoinerSameList(n, m) ==
    /\ CanCreate(n)
    /\ n # m /\ joiners[m] # 0
    /\ joiners' = [joiners EXCEPT ![n] = joiners[m]]
    /\ lists' = Collect(lists, [joiners EXCEPT ![n] = joiners[m]])
    /\ last' = [op |-> "ThreadJoiner", joiner |-> n]
    /\ UNCHANGED <<joined, thread, pc, configVars, contextVars, clockVars>>

\* n = a + b: ThreadJoiner(self.threads + other.threads), a new list object
Add(n, a, b) ==
    /\ CanBind(n)
    /\ joiners[a] # 0 /\ joiners[b] # 0
    /\ Len(ThreadsOf(a)) + Len(ThreadsOf(b)) <= MaxLen
    /\ Bind(n, ThreadsOf(a) \o ThreadsOf(b))
    /\ last' = [op |-> "__add__", self |-> a, other |-> b, joiner |-> n,
                self_before |-> ThreadsOf(a), other_before |-> ThreadsOf(b)]
    /\ UNCHANGED <<joined, thread, pc, configVars, contextVars, clockVars>>

\* a += b: self.threads += other.threads extends a's list object in place
Iadd(a, b) ==
    /\ pc.at \in {"idle", "body"}
    /\ joiners[a] # 0 /\ joiners[b] # 0
    /\ Len(ThreadsOf(a)) + Len(ThreadsOf(b)) <= MaxLen
    /\ lists' = [lists EXCEPT ![joiners[a]] = @ \o ThreadsOf(b)]
    /\ last' = [op |-> "__iadd__", self |-> a, other |-> b, joiner |-> a,
                self_before |-> ThreadsOf(a), other_before |-> ThreadsOf(b)]
    /\ UNCHANGED <<joined, thread, joiners, pc, configVars, contextVars, clockVars>>

\* "with j:" begins: __enter__ is called; entered remembers the threads the
\* joiner holds at this moment, started the threads this __enter__ has
\* started and waited the threads this __exit__ has waited for, in order
With(j) ==
    /\ pc.at = "idle"
    /\ joiners[j] # 0
    /\ pc' = [at |-> "enter", joiner |-> j, i |-> 1, failed |-> FALSE,
              waiting |-> FALSE, entered |-> ThreadsOf(j),
              started |-> <<>>, waited |-> <<>>]
    /\ last' = [op |-> "with", joiner |-> j]
    /\ UNCHANGED <<joined, thread, lists, joiners, configVars, contextVars, clockVars>>

\* __enter__: one turn of "for thread in self.threads: thread.start()"; when
\* start raises, the with statement is left without running __exit__
EnterStep ==
    /\ pc.at = "enter"
    /\ IF pc.i > Len(ThreadsOf(pc.joiner))
       THEN /\ pc' = [pc EXCEPT !.at = "body"]
            /\ UNCHANGED <<joined, thread, last>>
       ELSE LET t == next_thread(ThreadsOf(pc.joiner), pc.i)
                started == start(thread[t])
            IN  /\ thread' = [thread EXCEPT ![t] = started.state]
                /\ IF started.raised = "none"
                   THEN /\ pc' = [pc EXCEPT !.i = pc.i + 1,
                                            !.started = Append(@, t)]
                        /\ UNCHANGED last
                   ELSE /\ pc' = [at |-> "idle"]
                        /\ last' = [op |-> "left", joiner |-> pc.joiner,
                                    how |-> "__enter__ raised",
                                    held |-> ThreadsOf(pc.joiner),
                                    entered |-> pc.entered,
                                    body_failed |-> FALSE,
                                    raised |-> started.raised]
    /\ UNCHANGED <<joined, lists, joiners, configVars, contextVars, clockVars>>

\* the body of the with statement ends, normally or by raising: __exit__
\* is called
BodyEnds(failed) ==
    /\ pc.at = "body"
    /\ pc' = [pc EXCEPT !.at = "exit", !.i = 1, !.failed = failed]
    /\ UNCHANGED <<joined, thread, lists, joiners, last, configVars, contextVars, clockVars>>

\* __exit__: "if thread.is_alive(): status_update(...)" for the next thread;
\* waiting says that "Waiting for '<name>' to complete" was printed
ExitIsAlive ==
    /\ pc.at = "exit"
    /\ pc.i <= Len(ThreadsOf(pc.joiner))
    /\ LET t == next_thread(ThreadsOf(pc.joiner), pc.i)
       IN  pc' = [pc EXCEPT !.at = "join", !.waiting = is_alive(thread[t])]
    /\ UNCHANGED <<joined, thread, lists, joiners, last, configVars, contextVars, clockVars>>

\* __exit__: thread.join() for that thread returns or raises
ExitJoin ==
    /\ pc.at = "join"
    /\ LET t == next_thread(ThreadsOf(pc.joiner), pc.i)
           outcome == join(thread[t])
       IN  /\ outcome # "blocks"
           /\ IF outcome = "returns"
              THEN /\ pc' = [pc EXCEPT !.at = "exit", !.i = pc.i + 1,
                                       !.waiting = FALSE,
                                       !.waited = Append(@, t)]
                   /\ joined' = [joined EXCEPT
                                    ![t] = IF @ = "no" THEN "once" ELSE "again"]
                   /\ UNCHANGED last
              ELSE /\ pc' = [at |-> "idle"]
                   /\ last' = [op |-> "left", joiner |-> pc.joiner,
                               how |-> "__exit__ raised",
                               held |-> ThreadsOf(pc.joiner),
                               entered |-> pc.entered,
                               body_failed |-> pc.failed,
                               raised |-> outcome]
                   /\ UNCHANGED joined
    /\ UNCHANGED <<thread, lists, joiners, configVars, contextVars, clockVars>>

\* __exit__ returns after the last thread: the with statement is left, and
\* re-raises the body's exception unless __exit__ returned a true value
ExitReturns ==
    /\ pc.at = "exit"
    /\ pc.i > Len(ThreadsOf(pc.joiner))
    /\ pc' = [at |-> "idle"]
    /\ last' = [op |-> "left", joiner |-> pc.joiner,
                how |-> "__exit__ returned",
                held |-> ThreadsOf(pc.joiner),
                entered |-> pc.entered,
                body_failed |-> pc.failed,
                raised |-> IF pc.failed /\ ~exit_suppresses
                           THEN "Exception" ELSE "none"]
    /\ UNCHANGED <<joined, thread, lists, joiners, configVars, contextVars, clockVars>>

-----------------------------------------------------------------------------
(* Initial state and the specifications                                    *)

Init ==
    /\ GlobalConfig = InitialGlobalConfig
    /\ inits = 0
    /\ _ERROR_CONTEXT = <<>>
    /\ scopes = <<>>
    /\ exc = NoExc
    /\ failures = 0
    /\ clock = 0
    /\ ticks = 0
    /\ lastProbe = NoProbe
    /\ thread = [t \in Threads |-> "new"]
    /\ lists = [l \in ListIds |-> <<>>]
    /\ joiners = [n \in Names |-> 0]
    /\ pc = [at |-> "idle"]
    /\ joined = [t \in Threads |-> "no"]
    /\ last = NoCall

NextConfig ==
    \/ \E config \in NewConfigs, test_mode \in BOOLEAN :
          init_global_config(config, test_mode)
    \/ \E value \in BOOLEAN : SetPresumeConnectivity(value)
    \/ \E how \in {"bool", "len"}, name \in Attributes : QueryFlag(how, name)

SpecConfig == Init /\ [][NextConfig]_vars

NextPrompt ==
    \/ \E config \in PromptConfigs, test_mode \in BOOLEAN :
          init_global_config(config, test_mode)
    \/ \E default_result \in BOOLEAN, force_result \in BOOLEAN,
          isatty \in BOOLEAN, reply \in Replies :
          QueryYesNo(default_result, force_result, isatty, reply)

SpecPrompt == Init /\ [][NextPrompt]_vars

NextContext ==
    \/ \E context \in Contexts : EnterContext(context)
    \/ ExitContextReturn
    \/ ExitContextRaise
    \/ \E id \in ExcIds : Raise(id)
    \/ HandleException
    \/ ProcessExit
    \/ \E fixit_hint \in BOOLEAN : ErrorMessage(fixit_hint)
    \/ \E pretend \in PyBool \cup {DoNotUseInIfStmt}, fixit_hint \in BOOLEAN,
          fatal_when_pretending \in BOOLEAN, given \in BOOLEAN, code \in ExitCodes :
          FatalError(pretend, fixit_hint, fatal_when_pretending, given, code)

SpecContext == Init /\ [][NextContext]_vars

NextProbe ==
    \/ \E config \in ProbeConfigs, test_mode \in BOOLEAN :
          init_global_config(config, test_mode)
    \/ \E value \in BOOLEAN : SetPresumeConnectivity(value)
    \/ \E d \in {1, Window - 1, Window} : Tick(d)
    \/ \E connect \in Connects : HaveWorkingInternetConnection(connect)

SpecProbe == Init /\ [][NextProbe]_vars

NextJoiner ==
    \/ \E n \in Names : ThreadJoinerNone(n)
    \/ \E n \in Names, t \in Threads : ThreadJoinerThread(n, t)
    \/ \E n \in Names, threads \in ThreadLists : ThreadJoinerNewList(n, threads)
    \/ \E n \in Names, m \in Names : ThreadJoinerSameList(n, m)
    \/ \E n \in Names, a \in Names, b \in Names : Add(n, a, b)
    \/ \E a \in Names, b \in Names : Iadd(a, b)
    \/ \E j \in Names : With(j)
    \/ EnterStep
    \/ \E failed \in BOOLEAN : BodyEnds(failed)
    \/ ExitIsAlive
    \/ ExitJoin
    \/ ExitReturns
    \/ \E t \in Threads : ThreadFinishes(t)

SpecJoiner == Init /\ [][NextJoiner]_vars

\* the threads whose run() returns in the end; the last thread may run for
\* ever (it is free to finish, nothing makes it)
Terminating == Threads \ {MaxThreads}

\* the main thread keeps running while it is in __exit__, each call of
\* is_alive and each join that can return does return, and every thread
\* that terminates is scheduled until it has finished
FairJoiner ==
    /\ WF_vars(ExitIsAlive)
    /\ WF_vars(ExitJoin)
    /\ WF_vars(ExitReturns)
    /\ \A t \in Terminating : WF_vars(ThreadFinishes(t))

SpecJoinerFair == Init /\ [][NextJoiner]_vars /\ FairJoiner

\* the whole module: every operation, in any order
Next == NextConfig \/ NextPrompt \/ NextContext \/ NextProbe \/ NextJoiner

Spec == Init /\ [][Next]_vars

-----------------------------------------------------------------------------
(* Claims about the configuration, checked under SpecConfig                *)

\* C7: init_global_config fails with the usage error (the assertion) exactly
\* when the config's verbose and quiet are both true, for either test_mode
\* and whatever pretend, force and presume_connectivity are; it raises
\* nothing for every other combination.
C7_InitFailsIffVerboseAndQuiet ==
    last.op = "init_global_config" =>
        /\ (last.raised = "AssertionError")
              <=> (last.config.verbose = True /\ last.config.quiet = True)
        /\ last.raised \in {"none", "AssertionError"}

C7_Witness ==
    /\ last.op = "init_global_config"
    /\ last.raised = "AssertionError"
    /\ last.test_mode
    /\ last.config.pretend = True

\* C8 as stated: before any init_global_config call, a truthiness or length
\* query on each of pretend, verbose, quiet, force and presume_connectivity
\* raises.
C8_EveryFlagFailsBeforeInit ==
    (last.op = "query" /\ last.inits = 0) => last.result.raised # "none"

\* C8 amended: before any init_global_config call, a truthiness or length
\* query on pretend, verbose, quiet or force raises ValueError, while
\* presume_connectivity is a plain False: its truthiness query returns False.
C8_ConstructorFlagsFailBeforeInit ==
    (last.op = "query" /\ last.inits = 0) =>
        /\ last.name \in Flags => last.result.raised = "ValueError"
        /\ (last.name = "presume_connectivity" /\ last.how = "bool") =>
              (last.result.raised = "none" /\ last.result.value = False)

C8_Witness ==
    /\ last.op = "query" /\ last.inits = 0
    /\ last.how = "bool" /\ last.name = "pretend"
    /\ last.result.raised = "ValueError"

\* C9 as stated: once a config is installed, an init_global_config call
\* made outside test mode leaves the installed config in place.
C9_SecondInitIgnoredOutsideTestMode ==
    (/\ last.op = "init_global_config"
     /\ last.installed
     /\ ~last.before.TEST_MODE
     /\ ~last.test_mode) => GlobalConfig = last.before

\* C9 amended: the placeholder is in place until the first
\* init_global_config call and never afterwards, and every call, the first
\* or a later one, in test mode or not, installs the config it was given.
C9_EveryInitInstalls ==
    /\ (inits = 0) <=> (GlobalConfig = InitialGlobalConfig)
    /\ inits > 0 => \A name \in Flags : GlobalConfig[name] # DoNotUseInIfStmt
    /\ last.op = "init_global_config" =>
          GlobalConfig = [last.config EXCEPT !.TEST_MODE = last.test_mode]

C9_Witness ==
    /\ last.op = "init_global_config"
    /\ last.installed
    /\ ~last.before.TEST_MODE
    /\ ~last.test_mode
    /\ GlobalConfig # last.before

\* C18: in every reachable state, after any sequence of init_global_config
\* calls, failed ones included, the config that get_global_config returns
\* never has verbose and quiet both true.
C18_NeverVerboseAndQuiet ==
    ~(get_global_config.verbose = True /\ get_global_config.quiet = True)

\* an init_global_config call that failed has installed its config
C18_FailedInitInstalled ==
    /\ last.op = "init_global_config"
    /\ last.raised = "AssertionError"
    /\ get_global_config = [last.config EXCEPT !.TEST_MODE = last.test_mode]
    /\ get_global_config.verbose = True /\ get_global_config.quiet = True

-----------------------------------------------------------------------------
(* Claims about query_yes_no, checked under SpecPrompt                     *)

QueriedWithoutAutoAnswer ==
    /\ last.op = "query_yes_no"
    /\ last.config.pretend = False
    /\ last.config.force = False

\* C11: when neither pretend nor force is set and stdin is not a terminal,
\* query_yes_no returns default_result, for every force_result, and it
\* prints no answer and does not read input.
C11_NoInputGivesDefault ==
    (QueriedWithoutAutoAnswer /\ ~last.isatty) =>
        /\ last.result.raised = "none"
        /\ last.result.value = last.default_result
        /\ last.result.printed = ""
        /\ ~last.result.read_input

C11_Witness ==
    /\ QueriedWithoutAutoAnswer /\ ~last.isatty
    /\ last.default_result /\ ~last.force_result
    /\ last.result.value = TRUE

\* C12 as stated: when query_yes_no prompts, for every reply: with default
\* yes the result is yes exactly when the reply does not start with "n";
\* with default no the result is yes exactly when the reply starts with "y".
C12_ReplyParsedAsTyped ==
    (QueriedWithoutAutoAnswer /\ last.isatty) =>
        /\ last.result.read_input
        /\ last.default_result =>
              (last.result.value <=> ~(last.reply # <<>> /\ last.reply[1] = "n"))
        /\ ~last.default_result =>
              (last.result.value <=> (last.reply # <<>> /\ last.reply[1] = "y"))

\* C12 amended: when query_yes_no prompts, for every reply: with default yes
\* the result is yes exactly when the reply does not start with a lower-case
\* "n" (a reply starting with "N" counts as yes); with default no the result
\* is yes exactly when the reply starts with "y" or "Y".
C12_ReplyParsed ==
    (QueriedWithoutAutoAnswer /\ last.isatty) =>
        /\ last.result.raised = "none"
        /\ last.result.read_input
        /\ last.default_result =>
              (last.result.value <=> ~(last.reply # <<>> /\ last.reply[1] = "n"))
        /\ ~last.default_result =>
              (last.result.value
                  <=> (last.reply # <<>> /\ last.reply[1] \in {"y", "Y"}))

C12_Witness ==
    /\ QueriedWithoutAutoAnswer /\ last.isatty
    /\ ~last.default_result
    /\ last.reply = <<"Y", "x">>
    /\ last.result.value = TRUE

-----------------------------------------------------------------------------
(* Claims about the error-context stack and the reporters, checked under   *)
(* SpecContext                                                             *)

\* C2: when the body of add_error_context(X) returns normally, whatever it
\* did inside (nested scopes that failed and were handled included), the
\* stack after the exit is exactly the stack before the entry.
C2_NormalExitRestoresStack ==
    (last.op = "add_error_context" /\ last.how = "returned") =>
        last.after = last.before

\* C3 as stated: when the body of add_error_context(X) fails, X is not
\* popped and is the top of the stack when the failure reaches the caller,
\* and the failure reaching the caller is the one the body produced.
C3_FailedFrameIsTop ==
    (last.op = "add_error_context" /\ last.how = "raised") =>
        /\ last.after = Append(last.before, last.context)
        /\ last.raised_out = last.raised_in

\* C3 amended: when the body of add_error_context(X) fails, X is not popped:
\* it stays where it was pushed, on top of the unchanged frames that were
\* there before, and the failure reaching the caller is the one the body
\* produced.  X is the top of the stack exactly when no scope nested in the
\* body has failed; otherwise the frames such scopes left lie above it.
C3_FailedFrameStays ==
    (last.op = "add_error_context" /\ last.how = "raised") =>
        /\ Len(last.after) > Len(last.before)
        /\ SubSeq(last.after, 1, Len(last.before) + 1)
              = Append(last.before, last.context)
        /\ (last.after = Append(last.before, last.context)) <=> ~last.nested_failed
        /\ last.raised_out = last.raised_in
        /\ last.raised_out.class \in {"Exception", "SystemExit"}
        /\ exc = last.raised_out
        /\ _ERROR_CONTEXT = last.after

C3_Witness ==
    /\ last.op = "add_error_context" /\ last.how = "raised"
    /\ last.raised_in.class = "SystemExit"
    /\ last.context = "X"
    /\ last.before = <<"Y">>
    /\ last.after = <<"Y", "X">>

\* a failure that comes out of a nested scope leaves two frames
C3_WitnessNested ==
    /\ last.op = "add_error_context" /\ last.how = "raised"
    /\ last.raised_in.class = "Exception"
    /\ last.nested_failed
    /\ Len(last.after) = Len(last.before) + 2

\* C4: fatal_error has three outcomes, for every fixit hint and exit code:
\* pretend and not fatal_when_pretending prints the "Potential fatal error"
\* variant and returns; pretend and fatal_when_pretending exits with the
\* given code; not pretend exits with the given code whatever
\* fatal_when_pretending is.  The code is 3 when the caller gives none.
C4_FatalErrorOutcomes ==
    last.op = "fatal_error" =>
        LET r == last.result
            exit_code == IF last.given THEN last.code ELSE 3
        IN  /\ (last.pretend = True /\ ~last.fatal_when_pretending) =>
                  /\ r.raised = "none"
                  /\ exc = NoExc
                  /\ Len(r.printed) = 1
                  /\ r.printed[1].message.prefix = "Potential fatal error"
            /\ (last.pretend = True /\ last.fatal_when_pretending) =>
                  /\ r.raised = "SystemExit"
                  /\ exc = SystemExit(exit_code)
            /\ last.pretend = False =>
                  /\ r.raised = "SystemExit"
                  /\ exc = SystemExit(exit_code)
                  /\ r.printed[1].message.prefix = "Fatal error"

C4_Witness ==
    /\ last.op = "fatal_error"
    /\ last.pretend = True /\ last.fatal_when_pretending
    /\ ~last.given
    /\ exc = SystemExit(3)

\* the open scopes whose body has not failed: all of them, except the
\* innermost one while an exception is leaving its body
OpenNotFailed ==
    IF exc.class \in {"Exception", "SystemExit"} /\ scopes # <<>>
    THEN Len(scopes) - 1
    ELSE Len(scopes)

\* C19 as stated: in every reachable state the depth of the error-context
\* stack is the number of open scopes whose body has not failed.
C19_DepthIsOpenScopes == Len(_ERROR_CONTEXT) = OpenNotFailed

\* C19 amended: in every reachable state the depth of the error-context
\* stack is the number of open scopes plus the number of scopes that were
\* left by a failure so far (each of those left one frame behind, and a
\* normal exit removes one frame); so the depth is the number of open scopes
\* exactly as long as no scope has been left by a failure.
C19_DepthCountsFailedScopes ==
    /\ Len(_ERROR_CONTEXT) = Len(scopes) + failures
    /\ (Len(_ERROR_CONTEXT) = Len(scopes)) <=> (failures = 0)

\* X is open again after the failure of a nested scope was handled
C19_Witness ==
    /\ Len(scopes) = 1 /\ scopes[1].context = "X"
    /\ exc = NoExc
    /\ failures = 1
    /\ _ERROR_CONTEXT = <<"X", "Y">>

\* the context a reporter shows for a stack: its top frame, or nothing
TopFrame(stack) == IF stack = <<>> THEN <<>> ELSE <<stack[Len(stack)]>>

\* C15: error_message and fatal_error prefix what they print with exactly
\* the top frame of the error-context stack when the stack is not empty,
\* never a deeper frame nor several frames, and with no context when it is
\* empty; reporting leaves the stack as it was.
C15_ReportersShowTopFrame ==
    /\ last.op = "error_message" =>
          /\ last.printed.message.context = TopFrame(last.stack)
          /\ last.printed.message.prefix = "Error"
          /\ _ERROR_CONTEXT = last.stack
    /\ last.op = "fatal_error" =>
          /\ \A i \in 1..Len(last.result.printed) :
                last.result.printed[i].message.context = TopFrame(last.stack)
          /\ last.pretend \in PyBool => Len(last.result.printed) = 1
          /\ _ERROR_CONTEXT = last.stack

\* fatal_error reports under two different frames and shows the upper one
C15_Witness ==
    /\ last.op = "fatal_error"
    /\ last.stack = <<"X", "Y">>
    /\ last.pretend = True /\ ~last.fatal_when_pretending
    /\ last.result.printed[1].message.context = <<"Y">>
    /\ _ERROR_CONTEXT = <<"X", "Y">>

-----------------------------------------------------------------------------
(* Claims about the connectivity probe, checked under SpecProbe            *)

\* the last call was a connectivity check not answered by the shortcut
CheckedWithoutShortcut ==
    /\ last.op = "have_working_internet_connection"
    /\ ~last.config.TEST_MODE
    /\ ~last.config.presume_connectivity

C6_Shortcut ==
    (/\ last.op = "have_working_internet_connection"
     /\ (last.config.TEST_MODE \/ last.config.presume_connectivity)) =>
        /\ last.return = [raised |-> "none", value |-> TRUE]
        /\ ~last.probed
        /\ GlobalConfig = last.config
        /\ lastProbe = last.previous

\* the shortcut answers true over a fresh cached false
C6_Witness ==
    /\ last.op = "have_working_internet_connection"
    /\ last.config.presume_connectivity /\ ~last.config.TEST_MODE
    /\ last.config.internet_connection_last_checked_at.set
    /\ last.config.internet_connection_last_checked_at.at > 0
    /\ last.time < last.config.internet_connection_last_checked_at.at + 60
    /\ ~last.config.internet_connection_last_check_result
    /\ last.connect = "OSError"
    /\ last.return.value

\* the last call probed and the connection attempt hit an unexpected error
ProbeHitUnexpectedError ==
    /\ last.op = "have_working_internet_connection"
    /\ last.probed
    /\ last.connect = "Exception"

\* C16: when the probe hits an unexpected (non-connection) error it goes
\* through fatal_error with config.pretend: with pretend true a potential
\* fatal error is reported and the check returns false; with pretend false
\* the fatal path ends the process with exit code 3, so SystemExit leaves
\* the check and no value is returned to the caller.
C16_UnexpectedErrorIsFatal ==
    ProbeHitUnexpectedError =>
        /\ last.config.pretend = True =>
              /\ last.printed[1].message.prefix = "Potential fatal error"
              /\ last.return = [raised |-> "none", value |-> FALSE]
        /\ last.config.pretend = False =>
              /\ last.printed[1].message.prefix = "Fatal error"
              /\ last.fatal = "SystemExit"
              /\ last.return.raised = "SystemExit"

\* the half of C16 about pretend true
C16_PretendReportsAndReturnsFalse ==
    (ProbeHitUnexpectedError /\ last.config.pretend = True) =>
        /\ last.printed[1].message.prefix = "Potential fatal error"
        /\ last.fatal = "none"
        /\ last.return = [raised |-> "none", value |-> FALSE]

\* with pretend false, fatal_error raised SystemExit and the check returned
\* False all the same
C16_ExitSwallowed ==
    /\ ProbeHitUnexpectedError
    /\ last.config.pretend = False
    /\ last.printed[1].message.prefix = "Fatal error"
    /\ last.fatal = "SystemExit"
    /\ last.return = [raised |-> "none", value |-> FALSE]

\* C17: the check writes the cache exactly when it probes.  A call that
\* attempts a connection, however the attempt ends, stores its own timestamp
\* in last_checked_at and the boolean it returns in last_check_result, and
\* changes nothing else; a call answered from the cache or by the shortcut
\* leaves the config, both cache fields included, as it was.
C17_CacheWrittenIffProbed ==
    last.op = "have_working_internet_connection" =>
        /\ last.probed =>
              /\ last.return.raised = "none"
              /\ GlobalConfig.internet_connection_last_checked_at = AtTime(last.time)
              /\ GlobalConfig.internet_connection_last_check_result = last.return.value
              /\ GlobalConfig =
                    [last.config EXCEPT
                        !.internet_connection_last_checked_at = AtTime(last.time),
                        !.internet_connection_last_check_result = last.return.value]
              /\ lastProbe = [set |-> TRUE, at |-> last.time,
                              result |-> last.return.value]
        /\ ~last.probed =>
              /\ GlobalConfig = last.config
              /\ lastProbe = last.previous

\* a probe that hits an unexpected error replaces a cached true by false
C17_Witness ==
    /\ last.op = "have_working_internet_connection"
    /\ last.probed /\ last.connect = "Exception"
    /\ last.config.internet_connection_last_check_result
    /\ last.time > 0
    /\ ~last.return.value
    /\ ~GlobalConfig.internet_connection_last_check_result
    /\ GlobalConfig.internet_connection_last_checked_at = AtTime(last.time)

\* a call answered from the cache leaves the stored timestamp alone
C17_WitnessCacheHit ==
    /\ CheckedWithoutShortcut
    /\ ~last.probed
    /\ last.time > last.config.internet_connection_last_checked_at.at
    /\ GlobalConfig.internet_connection_last_checked_at
          = last.config.internet_connection_last_checked_at

-----------------------------------------------------------------------------
(* Claims about ThreadJoiner, checked under SpecJoiner                     *)

\* C1: whatever threads a joiner holds and however the body ends, when the
\* scope's exit completes every held thread has terminated, and a failure of
\* the body is re-raised to the caller after the joins; the exit does
\* complete (it raises nothing itself) when the body has not added threads
\* to the joiner.
C1_AllJoinedAtExit ==
    /\ (last.op = "left" /\ last.how = "__exit__ returned") =>
          /\ \A i \in 1..Len(last.held) : thread[last.held[i]] = "done"
          /\ last.raised = IF last.body_failed THEN "Exception" ELSE "none"
    /\ (last.op = "left" /\ last.how = "__exit__ raised") =>
          last.held # last.entered

C1_Witness ==
    /\ last.op = "left" /\ last.how = "__exit__ returned"
    /\ last.body_failed /\ last.raised = "Exception"
    /\ Len(last.held) = 2 /\ last.held[1] # last.held[2]
    /\ last.held = last.entered
    /\ \A i \in 1..Len(last.held) : thread[last.held[i]] = "done"

\* C13: for any two joiners a and b, a + b is a joiner holding a's threads
\* followed by b's threads, and a and b hold what they held before; a += b
\* gives a that same concatenation and leaves b holding what it held before.
\* (The joiner that a + b was assigned to may be the variable that named an
\* operand; then that operand is not looked at.)
C13_ConcatenationKeepsOperands ==
    /\ last.op = "__add__" =>
          /\ ThreadsOf(last.joiner) = last.self_before \o last.other_before
          /\ last.joiner # last.self => ThreadsOf(last.self) = last.self_before
          /\ last.joiner # last.other => ThreadsOf(last.other) = last.other_before
    /\ (last.op = "__iadd__" /\ last.self # last.other) =>
          /\ ThreadsOf(last.self) = last.self_before \o last.other_before
          /\ ThreadsOf(last.other) = last.other_before

\* the same for operands whose .threads are different list objects
C13_DistinctListsKeepOperands ==
    /\ last.op = "__add__" =>
          /\ ThreadsOf(last.joiner) = last.self_before \o last.other_before
          /\ last.joiner # last.self => ThreadsOf(last.self) = last.self_before
          /\ last.joiner # last.other => ThreadsOf(last.other) = last.other_before
    /\ (last.op = "__iadd__" /\ joiners[last.self] # joiners[last.other]) =>
          /\ ThreadsOf(last.self) = last.self_before \o last.other_before
          /\ ThreadsOf(last.other) = last.other_before

\* a += b has changed b, a joiner that was given a's list
C13_SharedListChanged ==
    /\ last.op = "__iadd__" /\ last.self # last.other
    /\ joiners[last.self] = joiners[last.other]
    /\ ThreadsOf(last.other) # last.other_before

\* C14: over any sequence of constructions, concatenations, scope entries
\* and scope exits, no thread is joined more than once (start() itself
\* refuses a second start), and whenever control has left a joiner's scope,
\* by a normal exit, by a failing body or because __enter__ failed partway
\* through starting the threads, every thread the joiner holds is either
\* never started or already joined.
C14_NoLeakNoDoubleJoin ==
    /\ \A t \in Threads : joined[t] # "again"
    /\ last.op = "left" =>
          \A i \in 1..Len(last.held) :
              thread[last.held[i]] = "new" \/ joined[last.held[i]] # "no"

\* __enter__ failed on the second thread: the first is running, unjoined
C14_StartedThreadLeftRunning ==
    /\ last.op = "left" /\ last.how = "__enter__ raised"
    /\ last.held = last.entered
    /\ thread[last.held[1]] = "running"
    /\ joined[last.held[1]] = "no"

\* a thread has been joined a second time
C14_JoinedTwice == \E t \in Threads : joined[t] = "again"

\* C20: a joiner starts its threads on scope entry in the order they were
\* supplied and has started all of them when the body runs; on scope exit
\* it waits for them in that same order, and waits for a thread only when
\* every thread before it has terminated, whatever order the threads
\* themselves finish in.
C20_StartedAndWaitedInOrder ==
    /\ pc.at = "enter" =>
          /\ Len(pc.started) = pc.i - 1
          /\ pc.started = SubSeq(pc.entered, 1, Len(pc.started))
          /\ pc.waited = <<>>
    /\ pc.at \in {"body", "exit", "join"} =>
          /\ pc.started = pc.entered
          /\ \A k \in 1..Len(pc.entered) : thread[pc.entered[k]] # "new"
          /\ pc.entered = SubSeq(ThreadsOf(pc.joiner), 1, Len(pc.entered))
    /\ pc.at = "body" => pc.waited = <<>>
    /\ pc.at \in {"exit", "join"} =>
          /\ Len(pc.waited) = pc.i - 1
          /\ pc.waited = SubSeq(ThreadsOf(pc.joiner), 1, Len(pc.waited))
          /\ \A k \in 1..Len(pc.waited) : thread[pc.waited[k]] = "done"

\* the exit is waiting for the first thread, still running, while the
\* second, started after it, has already finished
C20_Witness ==
    /\ pc.at = "join" /\ pc.i = 1
    /\ Len(pc.entered) = 2 /\ pc.entered[1] # pc.entered[2]
    /\ pc.started = pc.entered
    /\ ThreadsOf(pc.joiner) = pc.entered
    /\ thread[pc.entered[1]] = "running"
    /\ thread[pc.entered[2]] = "done"
    /\ pc.waited = <<>>

-----------------------------------------------------------------------------
(* Claims about the end of ThreadJoiner.__exit__, checked under            *)
(* SpecJoinerFair                                                          *)

\* __exit__ is running
Exiting == pc.at \in {"exit", "join"}

\* the threads held by the joiner whose with statement is running
Held == {ThreadsOf(pc.joiner)[k] : k \in 1..Len(ThreadsOf(pc.joiner))}

\* __exit__ is in thread.join() for thread t
WaitingFor(t) ==
    /\ pc.at = "join"
    /\ next_thread(ThreadsOf(pc.joiner), pc.i) = t

\* __exit__ has returned
ExitReturned ==
    /\ pc.at = "idle"
    /\ last.op = "left" /\ last.how = "__exit__ returned"

\* C21: the exit of a joiner's scope completes exactly when every held
\* thread terminates.  Under fair scheduling, an exit over started threads
\* that each finish returns in the end; an exit that has returned has seen
\* every held thread terminate; and an exit waiting for a thread that runs
\* for ever waits for ever: as long as that thread is running, no step takes
\* the exit out of its join().
C21_ExitReturnsIffThreadsTerminate ==
    /\ (Exiting /\ \A t \in Held : t \in Terminating /\ thread[t] # "new")
          ~> ExitReturned
    /\ [](ExitReturned =>
            \A k \in 1..Len(last.held) : thread[last.held[k]] = "done")
    /\ [][\A t \in Threads :
            (WaitingFor(t) /\ thread[t] = "running" /\ thread'[t] = "running")
                => WaitingFor(t)']_vars

\* the exit has waited for the first thread and is blocked in join() on the
\* thread that may run for ever
C21_Witness ==
    /\ WaitingFor(MaxThreads)
    /\ pc.waiting
    /\ thread[MaxThreads] = "running"
    /\ pc.i = 2 /\ pc.waited # <<>> /\ pc.waited[1] \in Terminating

====
